---- MODULE Spec2Model ----
(***************************************************************************)
(* AnimalShelter (src/GraziosoDashboard/animal_Shelter.py): the CRUD      *)
(* wrapper over one MongoDB collection.  The instance state is the         *)
(* collection handle; the store state is the sequence of documents of the  *)
(* collection (in natural order) under the unique index idx_animal_id.     *)
(* Every public method is one action; its arguments, its return value,     *)
(* the exception it lets escape and the line it logs are recorded in       *)
(* variables so that properties can speak about calls.                     *)
(***************************************************************************)
EXTENDS Integers, Sequences, FiniteSets, TLC

VARIABLES collection, docs, nextOid, op, data, query, new_values, ret, raised, logged

vars == <<collection, docs, nextOid, op, data, query, new_values, ret, raised, logged>>

(* ---------------------------- bounds ---------------------------------- *)

\* Number of documents inserted in one run (the _id of a document is its
\* rank among the inserts, standing for the fresh ObjectId of insert_one).
MaxInserts == 3

(* ---------------------------- values ---------------------------------- *)

\* The fields the code gives a meaning to: the key of the unique index and
\* the key of the $group stage.
Fields == {"animal_id", "outcome_type"}

FieldValues == [animal_id |-> {"A1", "A2"}, outcome_type |-> {"Adoption", "Transfer"}]

AllValues == UNION {FieldValues[f] : f \in Fields}

\* Field mappings (Python dicts) over the modelled fields, the empty one included.
Mappings ==
  {m \in UNION {[S -> AllValues] : S \in SUBSET Fields} : \A f \in DOMAIN m : m[f] \in FieldValues[f]}

EmptyMap == [f \in {} |-> "x"]

\* Arguments of create: every mapping, the empty one included.
Records == Mappings

\* Filters: the empty filter and the equality filters on one field.
Queries == {m \in Mappings : \A f, g \in DOMAIN m : f = g}

\* $set documents: empty, or naming one field.
NewValues == {m \in Mappings : \A f, g \in DOMAIN m : f = g}

\* BSON null: the index key and the $group key of a document without the field.
Null == "null"

\* No value returned (the call raised).
NoReturn == "NoReturn"

(* ------------------------ the document store --------------------------- *)

\* The value a document has for a field, null when the field is missing.
FieldOrNull(doc, f) == IF f \in DOMAIN doc THEN doc[f] ELSE Null

\* Equality match of a filter mapping against a document ({} matches all).
Matches(doc, q) == \A f \in DOMAIN q : f \in DOMAIN doc /\ doc[f] = q[f]

\* Positions of the documents that match q.
Matching(d, q) == {i \in 1..Len(d) : Matches(d[i], q)}

\* Unique index idx_animal_id: would `doc` at position i (0: a new document)
\* collide with another document's key?
\* (variant: a collection without the unique index)
NoUniqueIndex(d, i, doc) == FALSE

UniqueViolation(d, i, doc) ==
  \E j \in 1..Len(d) : j # i /\ FieldOrNull(d[j], "animal_id") = FieldOrNull(doc, "animal_id")

\* insert_one adds the driver-generated _id to the document.
WithId(rec, oid) == [f \in DOMAIN rec \cup {"_id"} |-> IF f = "_id" THEN oid ELSE rec[f]]

\* insert_one: the outcome of the store call.
InsertOne(d, oid, rec) ==
  IF UniqueViolation(d, 0, WithId(rec, oid))
  THEN [docs |-> d, exc |-> "DuplicateKeyError", inserted |-> FALSE]
  ELSE [docs |-> Append(d, WithId(rec, oid)), exc |-> "none", inserted |-> TRUE]

\* Projection {"_id": False}.
\* (variant: find without the projection)
KeepId(doc) == doc

Project(doc) == [f \in DOMAIN doc \ {"_id"} |-> doc[f]]

\* find(q, {"_id": False}) read into a list.
Find(d, q) == LET hits == SelectSeq(d, LAMBDA doc : Matches(doc, q))
              IN [i \in 1..Len(hits) |-> Project(hits[i])]

\* $set: listed fields overwritten, the others kept.
\* (variant: a replacement document instead of $set)
Replace(doc, nv) == [f \in DOMAIN nv \cup {"_id"} |-> IF f \in DOMAIN nv THEN nv[f] ELSE doc[f]]

Merge(doc, nv) == [f \in DOMAIN doc \cup DOMAIN nv |-> IF f \in DOMAIN nv THEN nv[f] ELSE doc[f]]

\* All orders in which the members of a finite set can be visited.
Perms(S) == {s \in [1..Cardinality(S) -> S] : \A i, j \in 1..Cardinality(S) : s[i] = s[j] => i = j}

\* update_many visits the matching documents one by one in `order`; every
\* single-document write is atomic, the whole is not: a write rejected by the
\* unique index stops the command and keeps the writes already made.
RECURSIVE ApplySet(_, _, _, _)
ApplySet(d, order, nv, n) ==
  IF order = <<>> THEN [docs |-> d, exc |-> "none", modified |-> n]
  ELSE LET i == Head(order)
           nd == Merge(d[i], nv)
       IN IF nd = d[i] THEN ApplySet(d, Tail(order), nv, n)
          ELSE IF UniqueViolation(d, i, nd)
               THEN [docs |-> d, exc |-> "DuplicateKeyError", modified |-> n]
               ELSE ApplySet([d EXCEPT ![i] = nd], Tail(order), nv, n + 1)

\* update_many(q, {"$set": nv}); servers before 5.0 reject an empty $set.
\* (variant: every matching document written, no index consulted)
UpdateManyUnchecked(d, q, nv, order, rejectsEmptySet) ==
  LET m == Matching(d, q)
  IN [docs |-> [i \in 1..Len(d) |-> IF i \in m THEN Merge(d[i], nv) ELSE d[i]],
      exc |-> "none",
      modified |-> Cardinality({i \in m : Merge(d[i], nv) # d[i]})]

UpdateMany(d, q, nv, order, rejectsEmptySet) ==
  IF nv = EmptyMap /\ rejectsEmptySet
  THEN [docs |-> d, exc |-> "WriteError", modified |-> 0]
  ELSE ApplySet(d, order, nv, 0)

\* delete_many(q).
\* (variant: delete_one, the first match only)
DeleteFirst(d, q) ==
  LET m == Matching(d, q)
      first == IF m = {} THEN 0 ELSE CHOOSE i \in m : \A j \in m : i <= j
      kept == SelectSeq([i \in 1..Len(d) |-> <<i, d[i]>>], LAMBDA p : p[1] # first)
  IN [docs |-> [i \in 1..Len(kept) |-> kept[i][2]], deleted |-> IF m = {} THEN 0 ELSE 1]

DeleteMany(d, q) ==
  [docs |-> SelectSeq(d, LAMBDA doc : ~Matches(doc, q)), deleted |-> Cardinality(Matching(d, q))]

\* $group by outcome_type with a $sum of 1 per document.
Groups(d) ==
  LET key(i) == FieldOrNull(d[i], "outcome_type")
  IN {[_id |-> v, count |-> Cardinality({i \in 1..Len(d) : key(i) = v})] :
        v \in {key(i) : i \in 1..Len(d)}}

\* $sort {"count": -1}.
\* (variant: $sort {"count": 1})
SortAscending(s) == \A i, j \in 1..Len(s) : i < j => s[i].count <= s[j].count

SortDescending(s) == \A i, j \in 1..Len(s) : i < j => s[i].count >= s[j].count

\* aggregate(pipeline): every order of the groups the sort allows (ties are
\* left in any order).
Aggregate(d) == {s \in Perms(Groups(d)) : SortDescending(s)}

(* ------------------------ the access layer ----------------------------- *)

\* __init__: the handle is assigned at line 52 and reset to None when
\* MongoClient or create_index raises a PyMongoError.
\* (variant: line 69 missing, a create_index failure keeps the handle of line 52)
KeepsHandle(stage) == IF stage = "MongoClient" THEN "None" ELSE "handle"

CollectionAfterInit(stage) == IF stage = "ok" THEN "handle" ELSE "None"

\* _ensure_connection: TRUE when it returns, FALSE when it raises RuntimeError.
\* (variant: no check)
NeverRaises(c) == TRUE

EnsureConnection(c) == c # "None"

\* `if not data` in create.
\* (variant: no check)
NeverEmpty(rec) == FALSE

IsEmpty(rec) == rec = EmptyMap

\* The classes of pymongo.errors.PyMongoError the store calls raise.
PyMongoErrors == {"PyMongoError", "DuplicateKeyError", "WriteError"}

\* except (PyMongoError, RuntimeError).
\* (variant: except RuntimeError only)
CaughtRuntimeOnly(exc) == exc = "RuntimeError"

Caught(exc) == exc \in PyMongoErrors \cup {"RuntimeError"}

\* What precedes the store call in every try block: _ensure_connection, the
\* attribute access on self.collection, and the store answering at all.
Before(fault) ==
  IF ~EnsureConnection(collection) THEN "RuntimeError"
  ELSE IF collection = "None" THEN "AttributeError"
  ELSE IF fault THEN "PyMongoError"
  ELSE "none"

\* The end of a public method: the value returned, or the default of the
\* except clause with the error logged, or the exception left to the caller.
Finish(exc, value, default) ==
  /\ ret' = IF exc = "none" THEN value ELSE IF Caught(exc) THEN default ELSE NoReturn
  /\ raised' = IF exc = "none" \/ Caught(exc) THEN "none" ELSE exc
  /\ logged' = IF exc = "none" THEN "info" ELSE IF Caught(exc) THEN exc ELSE logged

Called(name, rec, q, nv) ==
  /\ collection # "unset"
  /\ op' = name
  /\ data' = rec
  /\ query' = q
  /\ new_values' = nv
  /\ collection' = collection

Init ==
  /\ collection = "unset"
  /\ docs = <<>>
  /\ nextOid = 1
  /\ op = "none"
  /\ data = EmptyMap
  /\ query = EmptyMap
  /\ new_values = EmptyMap
  /\ ret = NoReturn
  /\ raised = "none"
  /\ logged = "none"

Stages == {"ok", "MongoClient", "create_index"}

\* AnimalShelter(...): `stage` is where the set-up raises a PyMongoError, if
\* it does; the error is logged and nothing is raised.
Construct(stage) ==
  /\ collection = "unset"
  /\ collection' = CollectionAfterInit(stage)
  /\ op' = "__init__"
  /\ logged' = IF stage = "ok" THEN "info" ELSE "PyMongoError"
  /\ raised' = "none"
  /\ UNCHANGED <<docs, nextOid, data, query, new_values, ret>>

Create(rec, fault) ==
  /\ Called("create", rec, EmptyMap, EmptyMap)
  /\ IF IsEmpty(rec)
     THEN /\ raised' = "ValueError"
          /\ ret' = NoReturn
          /\ UNCHANGED <<docs, nextOid, logged>>
     ELSE LET pre == Before(fault)
              out == InsertOne(docs, nextOid, rec)
              exc == IF pre # "none" THEN pre ELSE out.exc
          IN /\ pre = "none" /\ out.inserted => nextOid <= MaxInserts
             /\ docs' = IF pre = "none" THEN out.docs ELSE docs
             /\ nextOid' = IF pre = "none" /\ out.inserted THEN nextOid + 1 ELSE nextOid
             /\ Finish(exc, TRUE, FALSE)

ReadBody(name, q, fault) ==
  /\ Called(name, EmptyMap, q, EmptyMap)
  /\ Finish(Before(fault), Find(docs, q), <<>>)
  /\ UNCHANGED <<docs, nextOid>>

Read(q, fault) == ReadBody("read", q, fault)

\* read_all delegates to read.
ReadAll(q, fault) == ReadBody("read_all", q, fault)

\* The orders update_many may visit the matching documents in (the order
\* shows only when a write can be rejected, which takes a $set of animal_id).
Orders(d, q, nv) ==
  IF "animal_id" \in DOMAIN nv THEN Perms(Matching(d, q))
  ELSE {CHOOSE s \in Perms(Matching(d, q)) : \A i, j \in DOMAIN s : i < j => s[i] < s[j]}

\* Whether the server rejects an empty $set (it shows only for an empty one).
EmptySetAnswers(nv) == IF nv = EmptyMap THEN BOOLEAN ELSE {FALSE}

Update(q, nv, fault) ==
  /\ Called("update", EmptyMap, q, nv)
  /\ \E order \in Orders(docs, q, nv), rejectsEmptySet \in EmptySetAnswers(nv) :
       LET pre == Before(fault)
           out == UpdateMany(docs, q, nv, order, rejectsEmptySet)
           exc == IF pre # "none" THEN pre ELSE out.exc
       IN /\ docs' = IF pre = "none" THEN out.docs ELSE docs
          /\ Finish(exc, out.modified, 0)
  /\ UNCHANGED nextOid

Delete(q, fault) ==
  /\ Called("delete", EmptyMap, q, EmptyMap)
  /\ LET pre == Before(fault)
         out == DeleteMany(docs, q)
     IN /\ docs' = IF pre = "none" THEN out.docs ELSE docs
        /\ Finish(pre, out.deleted, 0)
  /\ UNCHANGED nextOid

GetOutcomeTypeCounts(fault) ==
  /\ Called("get_outcome_type_counts", EmptyMap, EmptyMap, EmptyMap)
  /\ \E results \in Aggregate(docs) : Finish(Before(fault), results, <<>>)
  /\ UNCHANGED <<docs, nextOid>>

\* One call of the API; `faults` is the set of answers the store may give
\* to a connected instance ({FALSE}: it answers, TRUE: it fails).
Step(faults) ==
  \/ \E stage \in Stages : Construct(stage)
  \/ \E rec \in Records, fault \in faults : Create(rec, fault)
  \/ \E q \in Queries, fault \in faults : Read(q, fault)
  \/ \E q \in Queries, fault \in faults : ReadAll(q, fault)
  \/ \E q \in Queries, nv \in NewValues, fault \in faults : Update(q, nv, fault)
  \/ \E q \in Queries, fault \in faults : Delete(q, fault)
  \/ \E fault \in faults : GetOutcomeTypeCounts(fault)

\* The store answers every call of a connected instance.
Next == Step({FALSE})

Spec == Init /\ [][Next]_vars

\* The store may fail any call with a PyMongoError.
NextFault == Step(BOOLEAN)

SpecFault == Init /\ [][NextFault]_vars

(* ------------------------------ claims --------------------------------- *)

PublicOps == {"create", "read", "read_all", "update", "delete", "get_outcome_type_counts"}

\* The last call returned (nothing raised) the default value of its method.
ReturnedDefault ==
  /\ raised = "none"
  /\ op = "create" => ret = FALSE
  /\ op \in {"update", "delete"} => ret = 0
  /\ op \in {"read", "read_all", "get_outcome_type_counts"} => ret = <<>>

\* C1: on a disconnected instance (handle None) every call with a non-empty
\* record or any query returns its default (create false, read and read_all
\* the empty list, update and delete 0, get_outcome_type_counts the empty
\* list) and raises nothing.
C1_DisconnectedDefaults ==
  (collection = "None" /\ op \in PublicOps /\ ~(op = "create" /\ data = EmptyMap))
    => ReturnedDefault /\ logged = "RuntimeError"

C1_Witness == collection = "None" /\ op = "update" /\ raised = "none" /\ ret = 0 /\ new_values # EmptyMap

\* The records of a list that carry the store's _id field.
WithIdentity(list) == {i \in 1..Len(list) : "_id" \in DOMAIN list[i]}

\* C2 (as stated): on a connected instance, create(record) with a non-empty
\* record followed by read({}) returns a list that holds a record equal to
\* the inserted one, and no returned record carries _id.
C2_Original ==
  [][(collection = "handle" /\ op = "create" /\ data # EmptyMap /\ op' = "read" /\ query' = EmptyMap)
       => /\ raised' = "none"
          /\ \E i \in 1..Len(ret') : ret'[i] = data
          /\ WithIdentity(ret') = {}]_vars

\* C2 (amended): whenever create(record) returned true on a connected
\* instance, the read({}) that follows, when the store answers it, returns a
\* list that holds a record equal to the inserted one, and no returned
\* record carries _id.
C2_CreateThenRead ==
  [][(collection = "handle" /\ op = "create" /\ data # EmptyMap /\ raised = "none" /\ ret = TRUE
        /\ op' = "read" /\ query' = EmptyMap /\ logged' = "info")
       => /\ raised' = "none"
          /\ \E i \in 1..Len(ret') : ret'[i] = data
          /\ WithIdentity(ret') = {}]_vars

C2_Witness ==
  /\ collection = "handle" /\ op = "read" /\ query = EmptyMap /\ raised = "none"
  /\ Len(ret) = 2 /\ Len(docs) = 2 /\ \A i \in 1..2 : "_id" \in DOMAIN docs[i]

C4_EmptyRecordRejected ==
  [][(op' = "create" /\ data' = EmptyMap) => (raised' = "ValueError" /\ docs' = docs)]_vars

C4_Witness == op = "create" /\ data = EmptyMap /\ raised = "ValueError" /\ collection = "handle" /\ docs # <<>>

\* Some stored record carries this animal_id.
Holds(d, id) == \E i \in 1..Len(d) : "animal_id" \in DOMAIN d[i] /\ d[i].animal_id = id

\* C5: create of a record whose animal_id a stored record already carries
\* returns false, leaves the collection as it was, and the first record is
\* still among the records read({}) returns.
C5_DuplicateRejected ==
  [][(collection = "handle" /\ op' = "create" /\ "animal_id" \in DOMAIN data'
        /\ Holds(docs, data'.animal_id))
       => /\ raised' = "none"
          /\ ret' = FALSE
          /\ docs' = docs
          /\ \E i \in 1..Len(Find(docs', EmptyMap)) :
               FieldOrNull(Find(docs', EmptyMap)[i], "animal_id") = data'.animal_id]_vars

C5_Witness ==
  /\ collection = "handle" /\ op = "create" /\ raised = "none" /\ logged = "DuplicateKeyError"
  /\ "animal_id" \in DOMAIN data /\ Holds(docs, data.animal_id) /\ ret = FALSE

\* C6: in every state reached by create, update and delete calls, no two
\* stored records carry the same animal_id.
C6_AnimalIdUnique ==
  \A i, j \in 1..Len(docs) :
    (i # j /\ "animal_id" \in DOMAIN docs[i] /\ "animal_id" \in DOMAIN docs[j])
      => docs[i].animal_id # docs[j].animal_id

C6_Witness ==
  /\ collection = "handle" /\ op = "update" /\ raised = "none" /\ logged = "DuplicateKeyError"
  /\ "animal_id" \in DOMAIN new_values /\ Holds(docs, new_values.animal_id) /\ Len(docs) = 3

\* The stored records at the given positions that the step changed.
Changed(m) == {i \in m : docs'[i] # docs[i]}

C8_DeleteRemovesMatching ==
  [][/\ (collection = "handle" /\ op' = "delete")
          => /\ raised' = "none"
             /\ {docs'[i] : i \in 1..Len(docs')} = {docs[i] : i \in 1..Len(docs) \ Matching(docs, query')}
             /\ Len(docs') = Len(docs) - Cardinality(Matching(docs, query'))
             /\ ret' = Len(docs) - Len(docs')
     /\ (collection = "handle" /\ op = "delete" /\ op' = "read" /\ query' = query)
          => (raised' = "none" /\ ret' = <<>>)]_vars

C8_Witness ==
  /\ collection = "handle" /\ op = "delete" /\ raised = "none" /\ ret = 2 /\ Len(docs) = 1
  /\ query # EmptyMap

\* The number of stored records whose outcome_type (null when missing) is v.
CountOf(d, v) == Cardinality({i \in 1..Len(d) : FieldOrNull(d[i], "outcome_type") = v})

\* C9: on a connected instance get_outcome_type_counts returns one group for
\* every outcome_type a stored record has, each with the number of stored
\* records of that outcome_type, a larger count never after a smaller one,
\* and leaves the collection as it was.
C9_CountsDescending ==
  [][(collection = "handle" /\ op' = "get_outcome_type_counts")
       => /\ raised' = "none"
          /\ docs' = docs
          /\ \A v \in FieldValues.outcome_type \cup {Null} :
               Cardinality({k \in 1..Len(ret') : ret'[k]._id = v}) = (IF CountOf(docs, v) > 0 THEN 1 ELSE 0)
          /\ \A k \in 1..Len(ret') : ret'[k].count = CountOf(docs, ret'[k]._id)
          /\ \A k \in 1..Len(ret') - 1 : ret'[k].count >= ret'[k + 1].count]_vars

C9_Witness ==
  /\ collection = "handle" /\ op = "get_outcome_type_counts" /\ raised = "none"
  /\ Len(ret) = 2 /\ ret[1].count = 2 /\ ret[2].count = 1

\* C10: a set-up that fails raises nothing and leaves the handle None, and
\* no call on an instance whose handle is None gives it a handle.
C10_DisconnectedForGood ==
  [][/\ (op' = "__init__" /\ logged' # "info") => (raised' = "none" /\ collection' = "None")
     /\ collection = "None" => collection' = "None"]_vars

C10_Witness == collection = "None" /\ op = "get_outcome_type_counts" /\ raised = "none" /\ ret = <<>>

====
